---- MODULE Spec2Model ----
(***************************************************************************)
(* Frame synchronisation and decoding of the SEN0177 particulate-matter    *)
(* sensor driver: the decoder parse_data (read.rs), the stream-bound       *)
(* reader (serial.rs) and the block-bound reader (i2c.rs).                 *)
(*                                                                         *)
(* Buffers are sequences of bytes; byte offset i of the source is element  *)
(* i + 1 of the sequence (see at).                                         *)
(***************************************************************************)
EXTENDS Integers, Sequences, FiniteSets, TLC

\* ------------------------------------------------------------ constants

\* read.rs: 0x42
MAGIC_BYTE_0 == 66
\* read.rs: 0x4d
MAGIC_BYTE_1 == 77
\* read.rs: length of one frame
PAYLOAD_LEN == 32
\* serial.rs: `let mut attempts_left = 10;` in read()
OUTER_ATTEMPTS == 10

\* ------------------------------------------------------------ bounds

\* read() calls made on one sensor handle in a behaviour
MaxCalls == 2
\* transport failures injected in a behaviour
MaxFailures == 1
\* largest number of false starts (0x42 followed by a wrong byte) in a stream
MaxFalseStarts == 11

\* ------------------------------------------------------------ integers

Byte == 0..255
U16 == 65536

\* buf[i] of the source (0-based offset) on a 1-based sequence
at(buf, i) == buf[i + 1]

\* `x as f32` for an unsigned integer x: exact below 2^24, otherwise rounded
\* to a 24-bit significand (ties to even)
RECURSIVE ulp(_, _)
ulp(x, u) == IF x < 16777216 * u THEN u ELSE ulp(x, 2 * u)
as_f32(x) ==
    LET u == ulp(x, 1)
        q == x \div u
        r == x % u
    IN  IF 2 * r < u THEN q * u
        ELSE IF 2 * r > u THEN (q + 1) * u
        ELSE IF q % 2 = 0 THEN q * u ELSE (q + 1) * u

\* ------------------------------------------------------------ read.rs

\* mutant: the two bytes taken in little-endian order
as_u16_le(hi, lo) == ((lo * 256) % U16) + hi

\* ((hi as u16) << 8) | (lo as u16): the shifted value has its low eight
\* bits clear and lo < 256, so the bitwise or is the sum
as_u16(hi, lo) == ((hi * 256) % U16) + lo

\* mutant: the accumulator is a u8 (fold(0u8, ...)) widened afterwards
RECURSIVE fold_sum_u8(_, _)
fold_sum_u8(buf, n) ==
    IF n = 0 THEN 0 ELSE (fold_sum_u8(buf, n - 1) + at(buf, n - 1)) % 256

\* buf[0..n].iter().fold(0u16, |accum, next| accum + *next as u16)
RECURSIVE fold_sum(_, _)
fold_sum(buf, n) ==
    IF n = 0 THEN 0 ELSE (fold_sum(buf, n - 1) + at(buf, n - 1)) % U16

\* mutant: the fold stops one byte early (buf[0..PAYLOAD_LEN-3])
checksum_short(buf) == fold_sum(buf, PAYLOAD_LEN - 3)

\* line 9: the sum of buf[0..PAYLOAD_LEN-2]
checksum(buf) == fold_sum(buf, PAYLOAD_LEN - 2)

\* line 10
expected_sum(buf) ==
    ((at(buf, PAYLOAD_LEN - 2) * 256) % U16) + at(buf, PAYLOAD_LEN - 1)

\* lines 12-25: the Reading built from a buffer
reading_of(buf) ==
    [ pm1           |-> as_f32(as_u16(at(buf, 4), at(buf, 5))),
      pm2_5         |-> as_f32(as_u16(at(buf, 6), at(buf, 7))),
      pm10          |-> as_f32(as_u16(at(buf, 8), at(buf, 9))),
      env_pm1       |-> as_f32(as_u16(at(buf, 10), at(buf, 11))),
      env_pm2_5     |-> as_f32(as_u16(at(buf, 12), at(buf, 13))),
      env_pm10      |-> as_f32(as_u16(at(buf, 14), at(buf, 15))),
      particles_0_3 |-> as_u16(at(buf, 16), at(buf, 17)),
      particles_0_5 |-> as_u16(at(buf, 18), at(buf, 19)),
      particles_1   |-> as_u16(at(buf, 20), at(buf, 21)),
      particles_2_5 |-> as_u16(at(buf, 22), at(buf, 23)),
      particles_5   |-> as_u16(at(buf, 24), at(buf, 25)),
      particles_10  |-> as_u16(at(buf, 26), at(buf, 27)) ]

Ok(r) == [kind |-> "Ok", reading |-> r]
ChecksumMismatch == [kind |-> "ChecksumMismatch"]
BadMagic == [kind |-> "BadMagic"]
\* serial.rs line 70
InvalidData == [kind |-> "InvalidData",
                msg |-> "Unable to find magic bytes at start of payload"]
\* the conversion From<E> for SensorError<E> used by `?` and `err.into()`
TransportError(cause) == [kind |-> "TransportError", cause |-> cause]
NoResult == [kind |-> "None"]

\* mutant: the decoder also insists on the magic marker
parse_data_magic(buf) ==
    IF at(buf, 0) # MAGIC_BYTE_0 \/ at(buf, 1) # MAGIC_BYTE_1 THEN BadMagic
    ELSE IF expected_sum(buf) = checksum(buf) THEN Ok(reading_of(buf))
    ELSE ChecksumMismatch

parse_data(buf) ==
    IF expected_sum(buf) = checksum(buf)
    THEN Ok(reading_of(buf))
    ELSE ChecksumMismatch

\* ------------------------------------------------------------ inputs

\* the exact integer sum of the first n bytes of a sequence
RECURSIVE SumBytes(_, _)
SumBytes(s, n) == IF n = 0 THEN 0 ELSE SumBytes(s, n - 1) + s[n]

FlipBit(v, b) == IF (v \div (2 ^ b)) % 2 = 1 THEN v - 2 ^ b ELSE v + 2 ^ b

Zeros(n) == [i \in 1..n |-> 0]

\* the data bytes (offsets 2..29) of the frames used as inputs
DataScenario == <<0, 0, 0, 25, 0, 50, 0, 100>> \o Zeros(20)
DataRamp(a, c) == [i \in 1..28 |-> (a * i + c) % 256]
DataAllFF == [i \in 1..28 |-> 255]
DataMagic == [i \in 1..28 |-> IF i % 2 = 1 THEN MAGIC_BYTE_0 ELSE MAGIC_BYTE_1]
FrameData ==
    << DataScenario, DataRamp(1, 0), DataRamp(37, 200), DataAllFF, DataMagic >>

\* bytes 0-1: the magic marker and four wrong markers
Heads ==
    << <<MAGIC_BYTE_0, MAGIC_BYTE_1>>, <<MAGIC_BYTE_1, MAGIC_BYTE_0>>,
       <<0, 0>>, <<MAGIC_BYTE_0, 0>>, <<255, 255>> >>

\* bytes 30-31 for a body of sum s: 0 the checksum, 1 off by one,
\* 2 the checksum in little-endian order, 3 zero
Trailer(tv, s) ==
    CASE tv = 0 -> << (s % 65536) \div 256, s % 256 >>
      [] tv = 1 -> << ((s + 1) % 65536) \div 256, (s + 1) % 256 >>
      [] tv = 2 -> << s % 256, (s % 65536) \div 256 >>
      [] OTHER  -> << 0, 0 >>

\* an input buffer: data d under head h with trailer tv, then bit fb of
\* byte fp flipped (fp = -1: no flip)
InputBuf(in) ==
    LET body == Heads[in.h] \o FrameData[in.d]
        full == body \o Trailer(in.tv, SumBytes(body, PAYLOAD_LEN - 2))
    IN  IF in.fp = -1 THEN full
        ELSE [full EXCEPT ![in.fp + 1] = FlipBit(@, in.fb)]

Plain(d, h, tv) == [d |-> d, h |-> h, tv |-> tv, fp |-> -1, fb |-> 0]

PlainInputs ==
    { Plain(d, h, tv) : d \in 1..Len(FrameData), h \in 1..Len(Heads), tv \in 0..3 }
FlippedInputs ==
    { [d |-> d, h |-> 1, tv |-> 0, fp |-> fp, fb |-> fb] :
        d \in 1..Len(FrameData), fp \in 0..(PAYLOAD_LEN - 3), fb \in 0..7 }
DecodeInputs == PlainInputs \cup FlippedInputs
I2cInputs ==
    PlainInputs \cup { in \in FlippedInputs : in.d = 1 /\ in.fp \in {0, 1, 4, 29} }
NoInput == Plain(1, 1, 0)

Causes == {"timeout", "overrun"}

\* ------------------------------------------------------------ streams

\* serial.rs line 55: PAYLOAD_LEN as u32 * 4
scan_limit == PAYLOAD_LEN * 4

\* A stream: k junk bytes jb, then m false starts (j junk bytes, 0x42, x),
\* then k2 junk bytes, then the frame f without its first skip bytes, then
\* the tail: zeros for ever ("zeros"), the frame f again and again
\* ("frames"), or the frame after f and f in turn ("alt").  The read at
\* position failAt reports the failure `cause` (failAt = -1: never).
NextFrame(f) == [f EXCEPT !.d = (f.d % Len(FrameData)) + 1]
ByteAt(s, p) ==
    LET p1 == p - s.k
        p2 == p1 - s.m * (s.j + 2)
        p3 == p2 - s.k2
        p4 == p3 - (PAYLOAD_LEN - s.skip)
        fr == InputBuf(s.f)
        nx == InputBuf(NextFrame(s.f))
    IN  IF p < s.k THEN s.jb
        ELSE IF p2 < 0 THEN
            LET r == p1 % (s.j + 2)
            IN  IF r < s.j THEN s.jb ELSE IF r = s.j THEN MAGIC_BYTE_0 ELSE s.x
        ELSE IF p3 < 0 THEN s.jb
        ELSE IF p4 < 0 THEN at(fr, p3 + s.skip)
        ELSE IF s.tail = "frames" THEN at(fr, p4 % PAYLOAD_LEN)
        ELSE IF s.tail = "alt" THEN
            IF (p4 \div PAYLOAD_LEN) % 2 = 0
            THEN at(nx, p4 % PAYLOAD_LEN) ELSE at(fr, p4 % PAYLOAD_LEN)
        ELSE 0

Stream(k, jb, m, j, x, k2, f, skip, tail, failAt, cause) ==
    [k |-> k, jb |-> jb, m |-> m, j |-> j, x |-> x, k2 |-> k2, f |-> f,
     skip |-> skip, tail |-> tail, failAt |-> failAt, cause |-> cause]

StreamFrames == { Plain(d, 1, tv) : d \in 1..Len(FrameData), tv \in 0..1 }
JunkCounts ==
    {0, 1, scan_limit - 1, scan_limit, scan_limit + 1, OUTER_ATTEMPTS * scan_limit}
FalseStartCounts == {1, 2, OUTER_ATTEMPTS - 1, OUTER_ATTEMPTS, MaxFalseStarts}

\* junk, then one frame
JunkStreams ==
    { Stream(k, jb, 0, 0, 0, 0, f, 0, "zeros", -1, "timeout") :
        k \in JunkCounts, jb \in {0, MAGIC_BYTE_1}, f \in StreamFrames }
\* false starts, then junk, then frames
FalseStartStreams ==
    { Stream(0, 0, m, j, x, k2, f, 0, "frames", -1, "timeout") :
        m \in FalseStartCounts, j \in {0, scan_limit - 1},
        x \in {0, MAGIC_BYTE_0}, k2 \in {0, scan_limit - 1},
        f \in {Plain(1, 1, 0), Plain(5, 1, 0)} }
\* a partial frame, then frames
PartialStreams ==
    { Stream(0, 0, 0, 0, 0, 0, f, skip, "frames", -1, "timeout") :
        skip \in {1, 2, 16, PAYLOAD_LEN - 1}, f \in StreamFrames }
\* a transport failure at any read of a short stream, or at chosen reads of
\* a long one
FailingStreams ==
    { Stream(k, 0, m, 0, 0, 0, f, 0, "frames", failAt, cause) :
        k \in {0, 1}, m \in {0, 1}, f \in {Plain(1, 1, 0), Plain(2, 1, 1)},
        failAt \in 0..(2 * PAYLOAD_LEN + 4), cause \in Causes }
    \cup
    { Stream(k, 0, 0, 0, 0, 0, Plain(1, 1, 0), 0, "zeros", failAt, "overrun") :
        k \in {scan_limit - 1, scan_limit},
        failAt \in {scan_limit - 2, scan_limit - 1, scan_limit, scan_limit + 1} }
\* back-to-back frames from the first byte on
AlignedStreams ==
    { Stream(0, 0, 0, 0, 0, 0, f, 0, tail, -1, "timeout") :
        f \in StreamFrames, tail \in {"frames", "alt"} }
\* 0x42, then a frame: the frame starts at the byte read as second byte
OverlapStreams ==
    { Stream(0, 0, 1, 0, MAGIC_BYTE_0, 0, Plain(d, 1, 0), 1, tail, -1, "timeout") :
        d \in 1..Len(FrameData), tail \in {"zeros", "frames"} }
Streams ==
    JunkStreams \cup FalseStartStreams \cup PartialStreams \cup FailingStreams
        \cup AlignedStreams \cup OverlapStreams
\* the frame f from any of its bytes on, then frames for ever
HealStreams ==
    { Stream(0, 0, 0, 0, 0, 0, Plain(d, 1, 0), skip, tail, -1, "timeout") :
        d \in 1..Len(FrameData), skip \in 0..(PAYLOAD_LEN - 1),
        tail \in {"frames", "alt"} }
NoStream == Stream(0, 0, 0, 0, 0, 0, NoInput, 0, "zeros", -1, "timeout")

\* ------------------------------------------------------------ state

VARIABLES
    mode,              \* which entry point the caller drives: "decode", "serial", "i2c"
    input,             \* the buffer handed to parse_data / delivered by the bus
    stream,            \* the serial transport: the bytes it delivers
    pos,               \* the serial transport: bytes delivered so far
    failures,          \* transport reads that have reported a failure
    pc,                \* position of the caller / of read()
    attempts_left,     \* serial.rs read(): attempts_left
    byte_read,         \* serial.rs read(): byte_read
    fb_attempts_left,  \* serial.rs find_byte(): attempts_left
    fb_byte_read,      \* serial.rs find_byte(): byte_read
    buf,               \* the 32-byte working buffer
    slot,              \* serial.rs read(): offset of buf_slot in the fill loop
    result,            \* what the last call returned
    calls,             \* calls made so far
    reads,             \* this call: transport reads that returned a byte
    attempts,          \* this call: transport reads issued
    scans,             \* this call: find_byte invocations
    seconds,           \* this call: reads of the byte after a first magic byte
    parses,            \* this call: parse_data invocations
    block_reads,       \* this call: block reads issued on the bus
    start,             \* this call: <<pos, failures>> of the transport at entry
    bus                \* this call: outcome of the block read on the bus

transport == <<stream, pos, failures>>
frame == <<attempts_left, byte_read, fb_attempts_left, fb_byte_read, buf, slot>>
counters == <<reads, attempts, scans, seconds, parses, block_reads>>
history == <<start, bus>>
NoBus == [ok |-> TRUE, cause |-> "none"]
vars == <<mode, input, transport, pc, frame, result, calls, counters, history>>

Init ==
    /\ mode \in {"decode", "serial", "i2c"}
    /\ input \in (IF mode = "decode" THEN DecodeInputs ELSE {NoInput})
    /\ stream \in (IF mode = "serial" THEN Streams ELSE {NoStream})
    /\ pos = 0
    /\ failures = 0
    /\ pc = "idle"
    /\ attempts_left = 0
    /\ byte_read = 0
    /\ fb_attempts_left = 0
    /\ fb_byte_read = 0
    /\ buf = (IF mode = "decode" THEN InputBuf(input) ELSE Zeros(PAYLOAD_LEN))
    /\ slot = 0
    /\ result = NoResult
    /\ calls = 0
    /\ reads = 0
    /\ attempts = 0
    /\ scans = 0
    /\ seconds = 0
    /\ parses = 0
    /\ block_reads = 0
    /\ start = <<0, 0>>
    /\ bus = NoBus

\* ------------------------------------------------------------ decoder

\* a caller hands the buffer to parse_data
Decode ==
    /\ mode = "decode"
    /\ pc = "idle"
    /\ calls < MaxCalls
    /\ calls' = calls + 1
    /\ result' = parse_data(buf)
    /\ parses' = 1
    /\ pc' = "done"
    /\ UNCHANGED <<mode, history, input, transport, frame, reads, attempts, scans,
                   seconds, block_reads>>

\* ------------------------------------------------------------ serial.rs

\* the serial port's read(): the next byte, or the failure of this position
WillFail == pos = stream.failAt /\ failures < MaxFailures

\* `?` on a failed read: the call returns the converted error
ReadFails ==
    /\ WillFail
    /\ failures' = failures + 1
    /\ attempts' = attempts + 1
    /\ result' = TransportError(stream.cause)
    /\ pc' = "done"
    /\ UNCHANGED <<mode, history, input, stream, pos, frame, calls, reads, scans,
                   seconds, parses, block_reads>>

\* mutant: the scan allows one read more than its limit
find_byte_continue_off(b, left) == b # MAGIC_BYTE_0 /\ left >= 0

\* find_byte line 39: the loop condition
find_byte_continue(b, left) == b # MAGIC_BYTE_0 /\ left > 0

\* mutant: the outer loop does not test attempts_left
outer_continue_unbounded(b, left) == b # MAGIC_BYTE_1

\* mutant: the outer loop allows one attempt more
outer_continue_off(b, left) == b # MAGIC_BYTE_1 /\ left >= 0

\* read() line 55: the loop condition before the call of find_byte
outer_continue(b, left) == b # MAGIC_BYTE_1 /\ left > 0

\* mutant: the fill loop starts at buf[1..]
AfterLoop_slot1(b) ==
    IF b = MAGIC_BYTE_1
    THEN /\ buf' = <<MAGIC_BYTE_0, MAGIC_BYTE_1>> \o Zeros(PAYLOAD_LEN - 2)
         /\ slot' = 1
         /\ pc' = "fill"
         /\ result' = result
    ELSE /\ result' = InvalidData
         /\ pc' = "done"
         /\ UNCHANGED <<buf, slot>>

\* mutant: the fill loop reads the whole buffer again (buf.iter_mut())
AfterLoop_refill(b) ==
    IF b = MAGIC_BYTE_1
    THEN /\ buf' = <<MAGIC_BYTE_0, MAGIC_BYTE_1>> \o Zeros(PAYLOAD_LEN - 2)
         /\ slot' = 0
         /\ pc' = "fill"
         /\ result' = result
    ELSE /\ result' = InvalidData
         /\ pc' = "done"
         /\ UNCHANGED <<buf, slot>>

\* read() lines 60-71 up to the first read of the fill loop
AfterLoop(b) ==
    IF b = MAGIC_BYTE_1
    THEN /\ buf' = <<MAGIC_BYTE_0, MAGIC_BYTE_1>> \o Zeros(PAYLOAD_LEN - 2)
         /\ slot' = 2
         /\ pc' = "fill"
         /\ result' = result
    ELSE /\ result' = InvalidData
         /\ pc' = "done"
         /\ UNCHANGED <<buf, slot>>

\* mutant: byte_read lives in the handle and is not reset at entry
read_call_stale ==
    /\ mode = "serial"
    /\ pc = "idle"
    /\ calls < MaxCalls
    /\ calls' = calls + 1
    /\ result' = NoResult
    /\ attempts_left' = OUTER_ATTEMPTS
    /\ byte_read' = byte_read
    /\ reads' = 0
    /\ attempts' = 0
    /\ seconds' = 0
    /\ parses' = 0
    /\ start' = <<pos, failures>>
    /\ IF byte_read # MAGIC_BYTE_1
       THEN /\ fb_attempts_left' = scan_limit
            /\ fb_byte_read' = 0
            /\ buf' = Zeros(PAYLOAD_LEN)
            /\ slot' = 0
            /\ scans' = 1
            /\ pc' = "find_byte"
       ELSE /\ buf' = <<MAGIC_BYTE_0, MAGIC_BYTE_1>> \o Zeros(PAYLOAD_LEN - 2)
            /\ slot' = 2
            /\ scans' = 0
            /\ pc' = "fill"
            /\ UNCHANGED <<fb_attempts_left, fb_byte_read>>
    /\ UNCHANGED <<mode, bus, input, transport, block_reads>>

\* read() lines 53-55: entry, and the first call of find_byte
read_call ==
    /\ mode = "serial"
    /\ pc = "idle"
    /\ calls < MaxCalls
    /\ calls' = calls + 1
    /\ result' = NoResult
    /\ attempts_left' = OUTER_ATTEMPTS
    /\ byte_read' = 0
    /\ fb_attempts_left' = scan_limit
    /\ fb_byte_read' = 0
    /\ buf' = Zeros(PAYLOAD_LEN)
    /\ slot' = 0
    /\ reads' = 0
    /\ attempts' = 0
    /\ scans' = 1
    /\ seconds' = 0
    /\ parses' = 0
    /\ pc' = "find_byte"
    /\ start' = <<pos, failures>>
    /\ UNCHANGED <<mode, bus, input, transport, block_reads>>

\* mutant: a scan that found no 0x42 uses up an outer attempt and another
\* scan is started
find_byte_rescan ==
    /\ pc = "find_byte"
    /\ ~WillFail
    /\ LET b == ByteAt(stream, pos)
           left == fb_attempts_left - 1
       IN  /\ pos' = pos + 1
           /\ reads' = reads + 1
           /\ attempts' = attempts + 1
           /\ IF find_byte_continue(b, left)
              THEN /\ pc' = "find_byte"
                   /\ fb_byte_read' = b
                   /\ fb_attempts_left' = left
                   /\ UNCHANGED <<buf, slot, result, attempts_left, scans>>
              ELSE IF b = MAGIC_BYTE_0
              THEN /\ pc' = "second"
                   /\ fb_byte_read' = b
                   /\ fb_attempts_left' = left
                   /\ UNCHANGED <<buf, slot, result, attempts_left, scans>>
              ELSE IF attempts_left - 1 > 0
              THEN /\ pc' = "find_byte"
                   /\ fb_byte_read' = 0
                   /\ fb_attempts_left' = scan_limit
                   /\ attempts_left' = attempts_left - 1
                   /\ scans' = scans + 1
                   /\ UNCHANGED <<buf, slot, result>>
              ELSE /\ AfterLoop(byte_read)
                   /\ fb_byte_read' = b
                   /\ fb_attempts_left' = left
                   /\ UNCHANGED <<attempts_left, scans>>
    /\ UNCHANGED <<mode, history, input, stream, failures, byte_read,
                   calls, seconds, parses, block_reads>>

\* find_byte lines 39-43: one iteration of the scan, and its return
find_byte ==
    /\ pc = "find_byte"
    /\ ~WillFail
    /\ LET b == ByteAt(stream, pos)
           left == fb_attempts_left - 1
       IN  /\ pos' = pos + 1
           /\ reads' = reads + 1
           /\ attempts' = attempts + 1
           /\ fb_byte_read' = b
           /\ fb_attempts_left' = left
           /\ IF find_byte_continue(b, left)
              THEN /\ pc' = "find_byte"
                   /\ UNCHANGED <<buf, slot, result>>
              ELSE IF b = MAGIC_BYTE_0
              THEN /\ pc' = "second"
                   /\ UNCHANGED <<buf, slot, result>>
              ELSE AfterLoop(byte_read)
    /\ UNCHANGED <<mode, history, input, stream, failures, attempts_left, byte_read,
                   calls, scans, seconds, parses, block_reads>>

\* mutant: a mismatched second byte that is 0x42 is kept as a first byte
read_second_reuse ==
    /\ pc = "second"
    /\ ~WillFail
    /\ LET b == ByteAt(stream, pos)
           left == attempts_left - 1
       IN  /\ pos' = pos + 1
           /\ reads' = reads + 1
           /\ attempts' = attempts + 1
           /\ seconds' = seconds + 1
           /\ byte_read' = b
           /\ attempts_left' = left
           /\ IF outer_continue(b, left) /\ b = MAGIC_BYTE_0
              THEN /\ fb_attempts_left' = scan_limit
                   /\ fb_byte_read' = b
                   /\ scans' = scans + 1
                   /\ pc' = "second"
                   /\ UNCHANGED <<buf, slot, result>>
              ELSE IF outer_continue(b, left)
              THEN /\ fb_attempts_left' = scan_limit
                   /\ fb_byte_read' = 0
                   /\ scans' = scans + 1
                   /\ pc' = "find_byte"
                   /\ UNCHANGED <<buf, slot, result>>
              ELSE /\ AfterLoop(b)
                   /\ UNCHANGED <<fb_attempts_left, fb_byte_read, scans>>
    /\ UNCHANGED <<mode, history, input, stream, failures, calls, parses, block_reads>>

\* read() lines 56-57, and the loop condition that follows
read_second ==
    /\ pc = "second"
    /\ ~WillFail
    /\ LET b == ByteAt(stream, pos)
           left == attempts_left - 1
       IN  /\ pos' = pos + 1
           /\ reads' = reads + 1
           /\ attempts' = attempts + 1
           /\ seconds' = seconds + 1
           /\ byte_read' = b
           /\ attempts_left' = left
           /\ IF outer_continue(b, left)
              THEN /\ fb_attempts_left' = scan_limit
                   /\ fb_byte_read' = 0
                   /\ scans' = scans + 1
                   /\ pc' = "find_byte"
                   /\ UNCHANGED <<buf, slot, result>>
              ELSE /\ AfterLoop(b)
                   /\ UNCHANGED <<fb_attempts_left, fb_byte_read, scans>>
    /\ UNCHANGED <<mode, history, input, stream, failures, calls, parses, block_reads>>

\* mutant: a 0x42 among the frame's data is taken for a new frame start
read_fill_resync ==
    /\ pc = "fill"
    /\ ~WillFail
    /\ LET b == ByteAt(stream, pos)
           full == [buf EXCEPT ![slot + 1] = b]
       IN  /\ pos' = pos + 1
           /\ reads' = reads + 1
           /\ attempts' = attempts + 1
           /\ IF b = MAGIC_BYTE_0
              THEN /\ buf' = <<MAGIC_BYTE_0, MAGIC_BYTE_1>> \o Zeros(PAYLOAD_LEN - 2)
                   /\ slot' = 2
                   /\ pc' = "fill"
                   /\ UNCHANGED <<result, parses>>
              ELSE /\ buf' = full
                   /\ slot' = slot + 1
                   /\ IF slot + 1 < PAYLOAD_LEN
                      THEN /\ pc' = "fill"
                           /\ UNCHANGED <<result, parses>>
                      ELSE /\ result' = parse_data(full)
                           /\ parses' = parses + 1
                           /\ pc' = "done"
    /\ UNCHANGED <<mode, history, input, stream, failures, attempts_left, byte_read,
                   fb_attempts_left, fb_byte_read, calls, scans, seconds,
                   block_reads>>

\* read() lines 64-68: one iteration of the fill loop, and the decoding
read_fill ==
    /\ pc = "fill"
    /\ ~WillFail
    /\ LET b == ByteAt(stream, pos)
           full == [buf EXCEPT ![slot + 1] = b]
       IN  /\ pos' = pos + 1
           /\ reads' = reads + 1
           /\ attempts' = attempts + 1
           /\ buf' = full
           /\ slot' = slot + 1
           /\ IF slot + 1 < PAYLOAD_LEN
              THEN /\ pc' = "fill"
                   /\ UNCHANGED <<result, parses>>
              ELSE /\ result' = parse_data(full)
                   /\ parses' = parses + 1
                   /\ pc' = "done"
    /\ UNCHANGED <<mode, history, input, stream, failures, attempts_left, byte_read,
                   fb_attempts_left, fb_byte_read, calls, scans, seconds,
                   block_reads>>

\* mutant: a failed read is issued again
read_fails_retry ==
    /\ pc \in {"find_byte", "second", "fill"}
    /\ WillFail
    /\ failures' = failures + 1
    /\ attempts' = attempts + 1
    /\ UNCHANGED <<mode, history, input, stream, pos, pc, frame, result, calls, reads,
                   scans, seconds, parses, block_reads>>

\* `?` at lines 40, 56 and 65: a read of the serial port reports a failure
read_fails ==
    /\ pc \in {"find_byte", "second", "fill"}
    /\ ReadFails

\* ------------------------------------------------------------ i2c.rs

\* read() line 46
i2c_call ==
    /\ mode = "i2c"
    /\ pc = "idle"
    /\ calls < MaxCalls
    /\ calls' = calls + 1
    /\ result' = NoResult
    /\ input' = NoInput
    /\ buf' = Zeros(PAYLOAD_LEN)
    /\ block_reads' = 0
    /\ parses' = 0
    /\ pc' = "i2c_bus"
    /\ bus' = NoBus
    /\ UNCHANGED <<mode, start, transport, attempts_left, byte_read, fb_attempts_left,
                   fb_byte_read, slot, reads, attempts, scans, seconds>>

\* mutant: the marker test joined with && instead of ||
i2c_magic_wrong_and(b) == at(b, 0) # MAGIC_BYTE_0 /\ at(b, 1) # MAGIC_BYTE_1

\* read() line 50
i2c_magic_wrong(b) == at(b, 0) # MAGIC_BYTE_0 \/ at(b, 1) # MAGIC_BYTE_1

\* mutant: a block with the wrong marker is read again
i2c_read_retry ==
    /\ pc = "i2c_bus"
    /\ \E in \in I2cInputs, ok \in BOOLEAN, cause \in Causes :
        /\ ok \/ failures < MaxFailures
        /\ input' = in
        /\ buf' = InputBuf(in)
        /\ block_reads' = block_reads + 1
        /\ failures' = IF ok THEN failures ELSE failures + 1
        /\ bus' = [ok |-> ok, cause |-> IF ok THEN "none" ELSE cause]
        /\ IF ~ok
           THEN result' = TransportError(cause) /\ parses' = parses /\ pc' = "done"
           ELSE IF i2c_magic_wrong(InputBuf(in))
           THEN result' = result /\ parses' = parses /\ pc' = "i2c_bus"
           ELSE result' = parse_data(InputBuf(in)) /\ parses' = parses + 1
                /\ pc' = "done"
    /\ UNCHANGED <<mode, start, stream, pos, attempts_left, byte_read, fb_attempts_left,
                   fb_byte_read, slot, calls, reads, attempts, scans, seconds>>

\* mutant: the block is decoded before its marker is looked at
i2c_read_checksum_first ==
    /\ pc = "i2c_bus"
    /\ \E in \in I2cInputs, ok \in BOOLEAN, cause \in Causes :
        /\ ok \/ failures < MaxFailures
        /\ input' = in
        /\ buf' = InputBuf(in)
        /\ block_reads' = block_reads + 1
        /\ failures' = IF ok THEN failures ELSE failures + 1
        /\ bus' = [ok |-> ok, cause |-> IF ok THEN "none" ELSE cause]
        /\ IF ~ok
           THEN result' = TransportError(cause) /\ parses' = parses /\ pc' = "done"
           ELSE /\ parses' = parses + 1
                /\ pc' = "done"
                /\ result' = IF parse_data(InputBuf(in)) = ChecksumMismatch
                             THEN ChecksumMismatch
                             ELSE IF i2c_magic_wrong(InputBuf(in)) THEN BadMagic
                             ELSE parse_data(InputBuf(in))
    /\ UNCHANGED <<mode, start, stream, pos, attempts_left, byte_read, fb_attempts_left,
                   fb_byte_read, slot, calls, reads, attempts, scans, seconds>>

\* read() lines 47-55: the block read and what follows it
i2c_read ==
    /\ pc = "i2c_bus"
    /\ \E in \in I2cInputs, ok \in BOOLEAN, cause \in Causes :
        /\ ok \/ failures < MaxFailures
        /\ input' = in
        /\ buf' = InputBuf(in)
        /\ block_reads' = block_reads + 1
        /\ failures' = IF ok THEN failures ELSE failures + 1
        /\ bus' = [ok |-> ok, cause |-> IF ok THEN "none" ELSE cause]
        /\ IF ~ok
           THEN result' = TransportError(cause) /\ parses' = parses /\ pc' = "done"
           ELSE IF i2c_magic_wrong(InputBuf(in))
           THEN result' = BadMagic /\ parses' = parses /\ pc' = "done"
           ELSE result' = parse_data(InputBuf(in)) /\ parses' = parses + 1
                /\ pc' = "done"
    /\ UNCHANGED <<mode, start, stream, pos, attempts_left, byte_read, fb_attempts_left,
                   fb_byte_read, slot, calls, reads, attempts, scans, seconds>>

\* ------------------------------------------------------------ caller

\* the call has returned; the caller may call again
Return ==
    /\ pc = "done"
    /\ pc' = "idle"
    /\ UNCHANGED <<mode, history, input, transport, frame, result, calls, counters>>

Next ==
    \/ Decode
    \/ read_call
    \/ find_byte
    \/ read_second
    \/ read_fill
    \/ read_fails
    \/ i2c_call
    \/ i2c_read
    \/ Return

Spec == Init /\ [][Next]_vars

\* every transport read returns, and the caller keeps calling
FairSpec == Spec /\ WF_vars(Next)

\* ------------------------------------------------------------ endless calling

\* where the tail of a stream starts, and the length after which it repeats
TailStart(s) == s.k + s.m * (s.j + 2) + s.k2 + (PAYLOAD_LEN - s.skip)
Period(s) == IF s.tail = "alt" THEN 2 * PAYLOAD_LEN ELSE PAYLOAD_LEN
\* the position from which a stream repeats with its period: a stream that
\* is nothing but a frame cut at its front and then frames repeats from its
\* first byte, any other from the start of its tail
PeriodicFrom(s) ==
    IF s.k = 0 /\ s.m = 0 /\ s.k2 = 0 /\ s.tail \in {"frames", "alt"}
    THEN 0 ELSE TailStart(s)

\* The loop of the example never stops calling read(): whenever MaxCalls
\* calls are counted the count is taken one back, so that the next call
\* can be made.  Where the stream repeats, a position and the position one
\* period earlier deliver the same bytes from there on; the transport and
\* the entry position of the last call are taken one period back with the
\* count when both stay within the repeating part.
Rewind ==
    /\ mode = "serial"
    /\ pc = "idle"
    /\ calls = MaxCalls
    /\ stream.failAt = -1
    /\ calls' = calls - 1
    /\ IF start[1] - Period(stream) >= PeriodicFrom(stream)
       THEN /\ pos' = pos - Period(stream)
            /\ start' = <<start[1] - Period(stream), start[2]>>
       ELSE UNCHANGED <<pos, start>>
    /\ UNCHANGED <<mode, bus, input, stream, failures, pc, frame, result, counters>>

\* serial.rs lines 30-34: a handle on a stream that starts anywhere in a
\* frame
HealInit ==
    /\ mode = "serial"
    /\ input = NoInput
    /\ stream \in HealStreams
    /\ pos = 0
    /\ failures = 0
    /\ pc = "idle"
    /\ attempts_left = 0
    /\ byte_read = 0
    /\ fb_attempts_left = 0
    /\ fb_byte_read = 0
    /\ buf = Zeros(PAYLOAD_LEN)
    /\ slot = 0
    /\ result = NoResult
    /\ calls = 0
    /\ reads = 0
    /\ attempts = 0
    /\ scans = 0
    /\ seconds = 0
    /\ parses = 0
    /\ block_reads = 0
    /\ start = <<0, 0>>
    /\ bus = NoBus

HealNext ==
    \/ read_call
    \/ find_byte
    \/ read_second
    \/ read_fill
    \/ Return
    \/ Rewind

\* every transport read returns, and the caller keeps calling for ever
HealSpec == HealInit /\ [][HealNext]_vars /\ WF_vars(HealNext)

\* ------------------------------------------------------------ read() as a whole

\* find_byte from position p: the offset of the first 0x42 among the next
\* scan_limit bytes, or -1
first_magic(s, p) ==
    LET hits == {i \in 0..(scan_limit - 1) : ByteAt(s, p + i) = MAGIC_BYTE_0}
    IN  IF hits = {} THEN -1 ELSE CHOOSE i \in hits : \A h \in hits : i <= h

\* one of the reads at positions a..b reports a failure
fails_within(s, fl, a, b) == fl < MaxFailures /\ s.failAt >= a /\ s.failAt <= b

\* lines 61-66: the buffer filled from position q on
filled_from(s, q) ==
    <<MAGIC_BYTE_0, MAGIC_BYTE_1>>
        \o [i \in 1..(PAYLOAD_LEN - 2) |-> ByteAt(s, q + i - 1)]

\* read() of serial.rs from transport position p with fl failures so far
\* and `left` outer attempts: what it returns and where it leaves the
\* transport
RECURSIVE serial_read_from(_, _, _, _)
serial_read_from(s, p, fl, left) ==
    LET hit == first_magic(s, p)
        q == p + (IF hit = -1 THEN scan_limit ELSE hit + 1)
        failed == [result |-> TransportError(s.cause), pos |-> s.failAt]
    IN  IF fails_within(s, fl, p, q - 1) THEN failed
        ELSE IF hit = -1 THEN [result |-> InvalidData, pos |-> q]
        ELSE IF fails_within(s, fl, q, q) THEN failed
        ELSE IF ByteAt(s, q) = MAGIC_BYTE_1 THEN
            IF fails_within(s, fl, q + 1, q + PAYLOAD_LEN - 2) THEN failed
            ELSE [result |-> parse_data(filled_from(s, q + 1)),
                  pos |-> q + PAYLOAD_LEN - 1]
        ELSE IF left - 1 > 0 THEN serial_read_from(s, q + 1, fl, left - 1)
        ELSE [result |-> InvalidData, pos |-> q + 1]
serial_read(s, p, fl) == serial_read_from(s, p, fl, OUTER_ATTEMPTS)

\* ------------------------------------------------------------ lib.rs

\* lib.rs line 84: the frame without its two magic bytes
LIB_PAYLOAD_LEN == 30
\* lib.rs line 191
LIB_ATTEMPTS == 10
\* lib.rs line 193: the third argument of find_byte
lib_scan_limit == LIB_PAYLOAD_LEN * 4

\* `x as f64` for a u16: every u16 is below 2^53, the conversion is exact
as_f64(x) == x

\* lib.rs line 209
LibInvalidData == [kind |-> "InvalidData",
                   msg |-> "Unable to find start magic 0x424d"]
\* lib.rs lines 162-166: From<io::Error>
IoError(cause) == [kind |-> "IoError", cause |-> cause]

\* validate_checksum lines 236-237: the fold over buf[0..PAYLOAD_LEN-2],
\* started at 0x42 + 0x4d (at most 143 + 28 * 255, no u16 overflow)
RECURSIVE lib_sum(_, _)
lib_sum(payload, n) ==
    IF n = 0 THEN MAGIC_BYTE_0 + MAGIC_BYTE_1
    ELSE lib_sum(payload, n - 1) + at(payload, n - 1)

\* validate_checksum lines 235-244: TRUE for Ok(())
validate_checksum(payload) ==
    LET sum == lib_sum(payload, LIB_PAYLOAD_LEN - 2)
        lib_expected_sum ==
            ((at(payload, LIB_PAYLOAD_LEN - 2) * 256) % U16) + at(payload, LIB_PAYLOAD_LEN - 1)
    IN  lib_expected_sum = sum

\* read() lines 203-207
lib_reading_of(payload) ==
    [ pm1   |-> as_f64(((at(payload, 2) * 256) % U16) + at(payload, 3)),
      pm2_5 |-> as_f64(((at(payload, 4) * 256) % U16) + at(payload, 5)),
      pm10  |-> as_f64(((at(payload, 6) * 256) % U16) + at(payload, 7)) ]

\* streams read by the three-field reader: junk around both scan limits,
\* false starts around the attempt limit, and transport failures
LibStreams ==
    { Stream(k, 0, 0, 0, 0, 0, f, 0, tail, -1, "timeout") :
        k \in {0, 1, lib_scan_limit - 1, lib_scan_limit, scan_limit - 1, scan_limit},
        f \in StreamFrames, tail \in {"zeros", "frames"} }
    \cup
    { Stream(0, 0, m, 0, x, 0, Plain(d, 1, 0), 0, "frames", -1, "timeout") :
        m \in {1, LIB_ATTEMPTS - 1, LIB_ATTEMPTS}, x \in {0, MAGIC_BYTE_0},
        d \in {1, 5} }
    \cup
    { Stream(k, 0, m, 0, 0, 0, Plain(1, 1, 0), 0, "frames", failAt, cause) :
        k \in {0, 1}, m \in {0, 1}, failAt \in 0..(PAYLOAD_LEN + 4),
        cause \in Causes }

\* lib.rs lines 179-185: the handle after open()
LibInit ==
    /\ mode = "lib"
    /\ input = NoInput
    /\ stream \in LibStreams
    /\ pos = 0
    /\ failures = 0
    /\ pc = "idle"
    /\ attempts_left = 0
    /\ byte_read = 0
    /\ fb_attempts_left = 0
    /\ fb_byte_read = 0
    /\ buf = Zeros(LIB_PAYLOAD_LEN)
    /\ slot = 0
    /\ result = NoResult
    /\ calls = 0
    /\ reads = 0
    /\ attempts = 0
    /\ scans = 0
    /\ seconds = 0
    /\ parses = 0
    /\ block_reads = 0
    /\ start = <<0, 0>>
    /\ bus = NoBus

\* read() lines 198-210 up to the read_exact of the payload
lib_after_loop(b) ==
    IF b = MAGIC_BYTE_1
    THEN /\ buf' = Zeros(LIB_PAYLOAD_LEN)
         /\ slot' = 0
         /\ pc' = "lib_fill"
         /\ result' = result
    ELSE /\ result' = LibInvalidData
         /\ pc' = "done"
         /\ UNCHANGED <<buf, slot>>

\* read() lines 191-193: entry, and the first call of find_byte
lib_read_call ==
    /\ mode = "lib"
    /\ pc = "idle"
    /\ calls < MaxCalls
    /\ calls' = calls + 1
    /\ result' = NoResult
    /\ attempts_left' = LIB_ATTEMPTS
    /\ byte_read' = 0
    /\ fb_attempts_left' = lib_scan_limit
    /\ fb_byte_read' = 0
    /\ buf' = Zeros(LIB_PAYLOAD_LEN)
    /\ slot' = 0
    /\ reads' = 0
    /\ attempts' = 0
    /\ scans' = 1
    /\ seconds' = 0
    /\ parses' = 0
    /\ pc' = "lib_find_byte"
    /\ start' = <<pos, failures>>
    /\ UNCHANGED <<mode, bus, input, transport, block_reads>>

\* find_byte lines 225-233: one iteration of the scan, and its return
lib_find_byte ==
    /\ pc = "lib_find_byte"
    /\ ~WillFail
    /\ LET b == ByteAt(stream, pos)
           left == fb_attempts_left - 1
       IN  /\ pos' = pos + 1
           /\ reads' = reads + 1
           /\ attempts' = attempts + 1
           /\ fb_byte_read' = b
           /\ fb_attempts_left' = left
           /\ IF b # MAGIC_BYTE_0 /\ left > 0
              THEN /\ pc' = "lib_find_byte"
                   /\ UNCHANGED <<buf, slot, result>>
              ELSE IF b = MAGIC_BYTE_0
              THEN /\ pc' = "lib_second"
                   /\ UNCHANGED <<buf, slot, result>>
              ELSE lib_after_loop(byte_read)
    /\ UNCHANGED <<mode, history, input, stream, failures, attempts_left, byte_read,
                   calls, scans, seconds, parses, block_reads>>

\* read() lines 194-195, and the loop condition of line 193 that follows
lib_read_second ==
    /\ pc = "lib_second"
    /\ ~WillFail
    /\ LET b == ByteAt(stream, pos)
           left == attempts_left - 1
       IN  /\ pos' = pos + 1
           /\ reads' = reads + 1
           /\ attempts' = attempts + 1
           /\ seconds' = seconds + 1
           /\ byte_read' = b
           /\ attempts_left' = left
           /\ IF b # MAGIC_BYTE_1 /\ left > 0
              THEN /\ fb_attempts_left' = lib_scan_limit
                   /\ fb_byte_read' = 0
                   /\ scans' = scans + 1
                   /\ pc' = "lib_find_byte"
                   /\ UNCHANGED <<buf, slot, result>>
              ELSE /\ lib_after_loop(b)
                   /\ UNCHANGED <<fb_attempts_left, fb_byte_read, scans>>
    /\ UNCHANGED <<mode, history, input, stream, failures, calls, parses, block_reads>>

\* read() lines 199-207: read_exact of the payload byte by byte, then the
\* checksum and the Reading
lib_read_exact ==
    /\ pc = "lib_fill"
    /\ ~WillFail
    /\ LET b == ByteAt(stream, pos)
           full == [buf EXCEPT ![slot + 1] = b]
       IN  /\ pos' = pos + 1
           /\ reads' = reads + 1
           /\ attempts' = attempts + 1
           /\ buf' = full
           /\ slot' = slot + 1
           /\ IF slot + 1 < LIB_PAYLOAD_LEN
              THEN /\ pc' = "lib_fill"
                   /\ UNCHANGED <<result, parses>>
              ELSE /\ result' = IF validate_checksum(full)
                                THEN Ok(lib_reading_of(full))
                                ELSE ChecksumMismatch
                   /\ parses' = parses + 1
                   /\ pc' = "done"
    /\ UNCHANGED <<mode, history, input, stream, failures, attempts_left, byte_read,
                   fb_attempts_left, fb_byte_read, calls, scans, seconds,
                   block_reads>>

\* `?` at lines 193, 194, 200 and 229: a read of the port reports a failure
lib_read_fails ==
    /\ pc \in {"lib_find_byte", "lib_second", "lib_fill"}
    /\ WillFail
    /\ failures' = failures + 1
    /\ attempts' = attempts + 1
    /\ result' = IoError(stream.cause)
    /\ pc' = "done"
    /\ UNCHANGED <<mode, history, input, stream, pos, frame, calls, reads, scans,
                   seconds, parses, block_reads>>

LibNext ==
    \/ lib_read_call
    \/ lib_find_byte
    \/ lib_read_second
    \/ lib_read_exact
    \/ lib_read_fails
    \/ Return

LibSpec == LibInit /\ [][LibNext]_vars

\* ------------------------------------------------------------ properties

\* what the frame format of the specification says of a buffer
BE16(b, off) == 256 * at(b, off) + at(b, off + 1)
HasMagic(b) == at(b, 0) = 66 /\ at(b, 1) = 77
TrailerOk(b) == BE16(b, 30) = SumBytes(b, 30) % 65536
FieldsOf(b) ==
    [ pm1 |-> BE16(b, 4), pm2_5 |-> BE16(b, 6), pm10 |-> BE16(b, 8),
      env_pm1 |-> BE16(b, 10), env_pm2_5 |-> BE16(b, 12), env_pm10 |-> BE16(b, 14),
      particles_0_3 |-> BE16(b, 16), particles_0_5 |-> BE16(b, 18),
      particles_1 |-> BE16(b, 20), particles_2_5 |-> BE16(b, 22),
      particles_5 |-> BE16(b, 24), particles_10 |-> BE16(b, 26) ]
ScenarioFrame ==
    <<66, 77, 0, 0, 0, 25, 0, 50, 0, 100>> \o Zeros(20) \o <<1, 62>>
ScenarioReading ==
    [ pm1 |-> 25, pm2_5 |-> 50, pm10 |-> 100,
      env_pm1 |-> 0, env_pm2_5 |-> 0, env_pm10 |-> 0,
      particles_0_3 |-> 0, particles_0_5 |-> 0, particles_1 |-> 0,
      particles_2_5 |-> 0, particles_5 |-> 0, particles_10 |-> 0 ]
Decoded == pc = "done" /\ parses = 1
IsValidInput(in) == in.h = 1 /\ in.tv = 0 /\ in.fp = -1

\* C1: whenever the decoder has run on a buffer that starts with 0x42,0x4D
\* and whose trailer is the sum of bytes 0..29, the result is Ok and each of
\* the twelve fields is the big-endian value at its offset; the scenario
\* frame decodes to 25/50/100 and zeros.
C1_ValidFrameDecodes ==
    Decoded =>
        /\ (HasMagic(buf) /\ TrailerOk(buf)) => result = Ok(FieldsOf(buf))
        /\ buf = ScenarioFrame => result = Ok(ScenarioReading)
C1_Witness ==
    /\ mode = "decode" /\ Decoded
    /\ buf = ScenarioFrame
    /\ result.kind = "Ok" /\ result.reading.pm10 = 100

\* C2: the decoder has exactly two outcomes, a Reading exactly when the
\* trailer equals the sum of bytes 0..29 and ChecksumMismatch otherwise,
\* whatever bytes 0-1 are, and it issues no transport read.
C2_DecoderTotal ==
    (mode = "decode" /\ pc = "done") =>
        /\ result.kind \in {"Ok", "ChecksumMismatch"}
        /\ result.kind = "Ok" <=> TrailerOk(buf)
        /\ result.kind = "ChecksumMismatch" <=> ~TrailerOk(buf)
        /\ pos = 0 /\ attempts = 0 /\ block_reads = 0
C2_Witness ==
    /\ mode = "decode" /\ pc = "done"
    /\ ~HasMagic(buf) /\ TrailerOk(buf)
    /\ result.kind = "Ok"

\* C3: a valid frame with one bit of bytes 0..29 flipped and the trailer
\* kept is rejected with ChecksumMismatch, unless the flip leaves the
\* mod-65536 sum of bytes 0..29 unchanged.
C3_BitFlipRejected ==
    (mode = "decode" /\ pc = "done" /\ input.fp # -1) =>
        LET orig == InputBuf(Plain(input.d, input.h, input.tv))
        IN  \/ result = ChecksumMismatch
            \/ SumBytes(buf, 30) % 65536 = SumBytes(orig, 30) % 65536
C3_Witness ==
    /\ mode = "decode" /\ pc = "done"
    /\ input.fp = 29 /\ input.fb = 0
    /\ HasMagic(buf) /\ TrailerOk(InputBuf(Plain(input.d, input.h, input.tv)))
    /\ result = ChecksumMismatch

\* C4: on either transport a Reading is returned only for a decoded frame
\* that starts with 0x42,0x4D and whose trailer is the sum of bytes 0..29,
\* and it is that frame's fields; any other result carries no field.
C4_OnlyValidFramesTrusted ==
    (mode \in {"serial", "i2c"} /\ pc = "done") =>
        /\ result.kind = "Ok" =>
            /\ parses = 1
            /\ HasMagic(buf) /\ TrailerOk(buf)
            /\ result.reading = FieldsOf(buf)
        /\ result.kind # "Ok" => "reading" \notin DOMAIN result
C4_Witness ==
    /\ mode = "i2c" /\ pc = "done"
    /\ at(buf, 0) = 66 /\ at(buf, 1) = 0 /\ TrailerOk(buf)
    /\ result = BadMagic

\* C5 (as claimed): a synchronisation of the stream-bound read() that ends
\* without the magic pair, no transport read having failed, returns BadMagic.
C5_SyncFailureIsBadMagic ==
    (mode = "serial" /\ pc = "done" /\ parses = 0 /\ attempts = reads) =>
        result = BadMagic

\* k junk bytes other than 0x42, then a valid frame, no transport failure
IsJunkThenFrame(s) ==
    /\ s.m = 0 /\ s.k2 = 0 /\ s.skip = 0 /\ s.jb # 66
    /\ IsValidInput(s.f) /\ s.failAt = -1

\* C6: for k junk bytes other than 0x42 followed by a valid frame and no
\* transport failure, the first read() returns the frame's Reading exactly
\* when k < 128, and the error of line 70 (magic bytes not found) when
\* k >= 128.
C6_JunkThreshold ==
    (mode = "serial" /\ pc = "done" /\ calls = 1 /\ IsJunkThenFrame(stream)) =>
        /\ result = Ok(FieldsOf(InputBuf(stream.f))) <=> stream.k < 128
        /\ stream.k >= 128 => result = InvalidData
C6_Witness ==
    /\ mode = "serial" /\ pc = "done" /\ calls = 1 /\ IsJunkThenFrame(stream)
    /\ stream.k = 127
    /\ result.kind = "Ok" /\ pos = 127 + 32

\* C7: in the stream-bound read() a failed transport read ends the call
\* with TransportError carrying the cause: one failed read, no read after
\* it, no decoding, no other error.
C7_TransportFailureAborts ==
    (mode = "serial" /\ attempts > reads) =>
        /\ pc \in {"done", "idle"}
        /\ result = TransportError(stream.cause)
        /\ attempts = reads + 1
        /\ parses = 0
        /\ pos = stream.failAt
C7_Witness ==
    /\ mode = "serial" /\ pc = "done"
    /\ slot = 17 /\ attempts = reads + 1
    /\ result = TransportError("overrun")

\* C8: the block-bound read() issues exactly one block read per call; a
\* block that does not start with 0x42,0x4D yields BadMagic with no second
\* block read and no decoding, whatever its other bytes are.
C8_BlockNoRetry ==
    mode = "i2c" =>
        /\ block_reads <= 1
        /\ pc = "done" =>
            /\ block_reads = 1
            /\ (~HasMagic(buf) /\ result.kind # "TransportError") =>
                    (result = BadMagic /\ parses = 0)
C8_Witness ==
    /\ mode = "i2c" /\ pc = "done"
    /\ at(buf, 0) = 0 /\ TrailerOk(buf)
    /\ result = BadMagic /\ block_reads = 1 /\ parses = 0

\* the counters of one call of the stream-bound read() stay within 10 scans
\* of 128 reads, 10 second-byte reads, 30 payload reads, 1320 reads in all
C9_Bounds ==
    mode = "serial" =>
        /\ scans <= 10
        /\ seconds <= 10
        /\ fb_attempts_left >= 0 /\ fb_attempts_left <= 128
        /\ attempts_left >= 0
        /\ slot <= 32
        /\ reads <= 10 * 128 + 10 + 30

\* C9: one call of the stream-bound read() runs at most 10 scans of at
\* most 128 reads, at most 10 second-byte reads and at most 30 payload
\* reads, 1320 byte reads in all, and, every transport read returning,
\* every call that has started returns.
C9_ReadTerminates ==
    /\ []C9_Bounds
    /\ (mode = "serial" /\ pc \in {"find_byte", "second", "fill"}) ~> (pc = "done")
C9_Witness ==
    /\ mode = "serial" /\ pc = "done"
    /\ reads = 1320 /\ scans = 10 /\ seconds = 10
    /\ result.kind = "Ok"

\* C11: what a stream-bound read() returns, and where it leaves the
\* transport, is determined by the transport alone as it stands when the
\* call is made: nothing of an earlier call, whatever it returned, takes part.
C11_ResultFromTransportOnly ==
    (mode = "serial" /\ pc = "done") =>
        LET r == serial_read(stream, start[1], start[2])
        IN  result = r.result /\ pos = r.pos
C11_Witness ==
    /\ mode = "serial" /\ pc = "done"
    /\ calls = 2 /\ start[1] > 0 /\ start[2] = 1
    /\ result.kind = "Ok"

\* 0x42, then a valid frame whose first byte is the byte read as second byte
IsOverlap(s) ==
    /\ s.k = 0 /\ s.m = 1 /\ s.j = 0 /\ s.x = 66 /\ s.k2 = 0 /\ s.skip = 1
    /\ IsValidInput(s.f) /\ s.failAt = -1

\* C12: a byte read after a first magic byte that is not 0x4D is dropped
\* and the next scan starts, with no candidate, at the byte after it; on
\* 0x42, 0x42, 0x4D, <rest of a valid frame> the frame that starts at the
\* second 0x42 is not decoded from that position (bytes 1..32).
C12_SecondByteDiscarded ==
    mode = "serial" =>
        /\ (pc = "find_byte" /\ fb_attempts_left = 128) => fb_byte_read = 0
        /\ (pc = "find_byte" /\ fb_attempts_left = 128 /\ scans > 1) =>
                /\ byte_read # 77
                /\ byte_read = ByteAt(stream, pos - 1)
        /\ (IsOverlap(stream) /\ calls = 1 /\ pc = "done") =>
                ~(result.kind = "Ok" /\ pos = 33)
C12_Witness ==
    /\ mode = "serial" /\ pc = "done" /\ calls = 1
    /\ IsOverlap(stream)
    /\ scans = 2 /\ seconds = 1
    /\ result = InvalidData /\ pos = 2 + 128

\* m false starts (fewer than 128 bytes other than 0x42, then 0x42, then a
\* byte other than 0x4D), fewer than 128 bytes other than 0x42, a valid frame
IsFalseStarts(s) ==
    /\ s.k = 0 /\ s.j < 128 /\ s.jb # 66 /\ s.x # 77 /\ s.k2 < 128
    /\ s.skip = 0 /\ IsValidInput(s.f) /\ s.failAt = -1

\* C13: after m false starts the first read() returns the frame's Reading
\* exactly when m <= 9; with m >= 10 it returns the error of line 70 right
\* after the 10th mismatched second byte, having run 10 scans and no more.
C13_FalseStartLimit ==
    (mode = "serial" /\ pc = "done" /\ calls = 1 /\ IsFalseStarts(stream)) =>
        /\ result = Ok(FieldsOf(InputBuf(stream.f))) <=> stream.m <= 9
        /\ stream.m >= 10 =>
            /\ result = InvalidData
            /\ pos = 10 * (stream.j + 2)
            /\ scans = 10 /\ seconds = 10
C13_Witness ==
    /\ mode = "serial" /\ pc = "done" /\ calls = 1 /\ IsFalseStarts(stream)
    /\ stream.m = 10 /\ stream.j = 127 /\ stream.x = 66
    /\ result = InvalidData /\ pos = 1290

\* C14: from the moment the magic pair is found the buffer holds 0x42,
\* 0x4D and then the bytes delivered since, in delivery order from offset
\* 2 on, the rest still zero; the decoder gets it after exactly 30 such
\* reads, so the buffer is the 32 bytes of the stream that end at the
\* last byte consumed.
C14_BufferIsStreamWindow ==
    (mode = "serial" /\ (pc = "fill" \/ (pc = "done" /\ parses = 1))) =>
        /\ slot >= 2 /\ slot <= 32
        /\ pc = "done" => slot = 32
        /\ at(buf, 0) = 66 /\ at(buf, 1) = 77
        /\ \A i \in 0..31 :
            at(buf, i) = IF i < slot THEN ByteAt(stream, pos - slot + i) ELSE 0
        /\ result = (IF pc = "done" THEN parse_data(buf) ELSE NoResult)
C14_Witness ==
    /\ mode = "serial" /\ pc = "done" /\ parses = 1
    /\ stream.k = 1 /\ stream.f.d = 2
    /\ pos = 33 /\ slot = 32
    /\ buf = InputBuf(stream.f)

\* a proper suffix of a valid frame, then valid frames back to back for ever
IsPartial(s) ==
    /\ s.k = 0 /\ s.m = 0 /\ s.k2 = 0 /\ s.skip >= 1 /\ s.skip <= 31
    /\ IsValidInput(s.f) /\ s.tail \in {"frames", "alt"} /\ s.failAt = -1
FramesOf(s) ==
    IF s.tail = "alt" THEN {InputBuf(s.f), InputBuf(NextFrame(s.f))}
    ELSE {InputBuf(s.f)}
ReadingReturned ==
    pc = "done" /\ \E b \in FramesOf(stream) : result = Ok(FieldsOf(b))
\* no frame of the stream holds the byte 0x42 after its marker
NoMagicInside(s) == \A b \in FramesOf(s) : \A i \in 2..31 : at(b, i) # 66

\* C15 (as claimed): on a partial frame followed by valid frames for ever,
\* repeated calls of read() eventually return the Reading of one of the
\* complete frames.
C15_SelfHealing ==
    (mode = "serial" /\ IsPartial(stream)) => <>ReadingReturned

\* C15 (amended): the same when no frame of the stream holds the byte 0x42
\* at offsets 2..31; every call then returns the Reading of a complete
\* frame.
C15_SelfHealingAmended ==
    /\ (mode = "serial" /\ IsPartial(stream) /\ NoMagicInside(stream))
            => <>ReadingReturned
    /\ [](( /\ mode = "serial" /\ IsPartial(stream) /\ NoMagicInside(stream)
            /\ pc = "done" ) => ReadingReturned)
C15_Witness ==
    /\ mode = "serial" /\ IsPartial(stream) /\ NoMagicInside(stream)
    /\ stream.skip = 16 /\ calls = 1 /\ pos = 16 + 32
    /\ ReadingReturned

\* C16: the block-bound read() returns TransportError when the block read
\* failed, whatever the buffer holds; else BadMagic when the block does not
\* start with 0x42,0x4D, also when its trailer is wrong; else the Reading
\* of the block when its trailer matches and ChecksumMismatch when not.
C16_BlockPrecedence ==
    (mode = "i2c" /\ pc = "done") =>
        /\ ~bus.ok => result = TransportError(bus.cause)
        /\ (bus.ok /\ ~HasMagic(buf)) => result = BadMagic
        /\ (bus.ok /\ HasMagic(buf)) =>
            result = IF TrailerOk(buf) THEN Ok(FieldsOf(buf)) ELSE ChecksumMismatch
C16_Witness ==
    /\ mode = "i2c" /\ pc = "done"
    /\ bus.ok /\ ~HasMagic(buf) /\ ~TrailerOk(buf)
    /\ result = BadMagic

\* what the stream reader of serial.rs does from the transport state the
\* three-field reader was entered with
SerialView == serial_read(stream, start[1], start[2])
LibReturned == mode = "lib" /\ pc = "done" /\ stream.failAt = -1

\* C17: on a stream without transport failures the three-field reader of
\* lib.rs returns a Reading exactly when the reader of serial.rs does, with
\* the same pm1, pm2_5 and pm10, and leaves the transport at the same
\* position.
C17_ThreeFieldViewAgrees ==
    LibReturned =>
        /\ (result.kind = "Ok") <=> (SerialView.result.kind = "Ok")
        /\ result.kind = "Ok" =>
            /\ result.reading.pm1 = SerialView.result.reading.pm1
            /\ result.reading.pm2_5 = SerialView.result.reading.pm2_5
            /\ result.reading.pm10 = SerialView.result.reading.pm10
        /\ pos = SerialView.pos
\* the two readers do agree when 0x42 comes within the shorter scan
C17_AgreeWithinShortScan ==
    (LibReturned /\ calls = 1 /\ stream.k < lib_scan_limit) =>
        /\ (result.kind = "Ok") <=> (SerialView.result.kind = "Ok")
        /\ result.kind = "Ok" =>
            /\ result.reading.pm1 = SerialView.result.reading.pm1
            /\ result.reading.pm2_5 = SerialView.result.reading.pm2_5
            /\ result.reading.pm10 = SerialView.result.reading.pm10
        /\ pos = SerialView.pos
C17_Diverges ==
    /\ LibReturned /\ calls = 1
    /\ stream.k = lib_scan_limit /\ IsValidInput(stream.f)
    /\ result = LibInvalidData /\ pos = lib_scan_limit
    /\ SerialView.result.kind = "Ok" /\ SerialView.pos = lib_scan_limit + PAYLOAD_LEN

\* the 32 bytes of the stream from position p on
Window(s, p) == [i \in 1..PAYLOAD_LEN |-> ByteAt(s, p + i - 1)]
IsValidFrame(b) == HasMagic(b) /\ TrailerOk(b)
IsAligned(s) ==
    /\ s.k = 0 /\ s.m = 0 /\ s.k2 = 0 /\ s.skip = 0 /\ s.failAt = -1
    /\ s.tail \in {"frames", "alt"} /\ IsValidInput(s.f)

\* C18: a call of the stream-bound read() entered at the first byte of a
\* valid frame returns the Reading of that frame and has consumed exactly
\* its 32 bytes, whatever the data bytes are; so on back-to-back valid
\* frames the n-th call starts at byte 32(n-1) and returns the n-th frame.
C18_AlignedFramesInOrder ==
    (mode = "serial" /\ pc = "done") =>
        /\ ( /\ IsValidFrame(Window(stream, start[1]))
             /\ ~fails_within(stream, start[2], start[1], start[1] + 31) ) =>
            /\ result = Ok(FieldsOf(Window(stream, start[1])))
            /\ pos = start[1] + 32
            /\ reads = 32
        /\ IsAligned(stream) =>
            /\ start[1] = 32 * (calls - 1)
            /\ result = Ok(FieldsOf(Window(stream, 32 * (calls - 1))))
C18_Witness ==
    /\ mode = "serial" /\ pc = "done"
    /\ IsAligned(stream) /\ stream.tail = "alt" /\ stream.f.d = 4
    /\ calls = 2 /\ pos = 64
    /\ Window(stream, 32) = <<66, 77>> \o DataMagic \o Trailer(0, 66 + 77 + SumBytes(DataMagic, 28))
    /\ result = Ok(FieldsOf(Window(stream, 32)))
    /\ result # Ok(FieldsOf(Window(stream, 0)))

\* the scan of the call that returned found no 0x42 within its limit
ScanFailed == fb_attempts_left = 0 /\ fb_byte_read # 66

\* C19: a scan is started at entry and after a mismatched second byte only;
\* a scan that read 128 bytes without a 0x42 ends the call with the error
\* of the stream-bound read(), these 128 reads being the last of the call
\* and the outer attempts left being the ten minus the second bytes read.
C19_FailedScanEndsCall ==
    /\ (mode = "serial" /\ pc \in {"find_byte", "second", "fill", "done"}) =>
        /\ scans <= seconds + 1
        /\ attempts_left = OUTER_ATTEMPTS - seconds
    /\ (mode = "serial" /\ pc = "done" /\ ScanFailed) =>
        /\ result = InvalidData
        /\ parses = 0
        /\ scans = seconds + 1
        /\ pos = start[1] + reads
        /\ reads >= 128
        /\ \A i \in 1..128 : ByteAt(stream, pos - i) # 66
        /\ seconds = 0 => (reads = 128 /\ attempts_left = 10)
C19_Witness ==
    /\ mode = "serial" /\ pc = "done" /\ ScanFailed
    /\ calls = 1 /\ stream.k = 128 /\ stream.failAt = -1
    /\ IsValidFrame(Window(stream, pos))
    /\ reads = 128 /\ pos = 128 /\ attempts_left = 10
    /\ result = InvalidData

\* the largest sum of 30 bytes
MaxSum == (PAYLOAD_LEN - 2) * 255

\* C20: for every buffer the decoder has run on, each addition of the fold
\* gives at most 30 * 255 = 7650 before it is reduced to a u16, so the sum
\* it computes is the exact sum of bytes 0..29, and a buffer whose trailer
\* is above 7650 is rejected with ChecksumMismatch.
C20_AccumulatorNeverOverflows ==
    (pc = "done" /\ parses = 1 /\ mode \in {"decode", "serial", "i2c"}) =>
        /\ \A n \in 1..(PAYLOAD_LEN - 2) :
            /\ fold_sum(buf, n - 1) + at(buf, n - 1) <= MaxSum
            /\ fold_sum(buf, n) = SumBytes(buf, n)
        /\ MaxSum < U16
        /\ checksum(buf) = SumBytes(buf, 30)
        /\ BE16(buf, 30) > 7650 =>
            /\ parse_data(buf) = ChecksumMismatch
            /\ mode \in {"decode", "serial"} => result = ChecksumMismatch
C20_Witness ==
    /\ mode = "decode" /\ pc = "done" /\ parses = 1
    /\ \A i \in 0..29 : at(buf, i) = 255
    /\ checksum(buf) = 7650
    /\ BE16(buf, 30) = 7650
    /\ result.kind = "Ok"
C20_WitnessRejected ==
    /\ mode = "decode" /\ pc = "done" /\ parses = 1
    /\ BE16(buf, 30) > 7650
    /\ result = ChecksumMismatch

====
